---- MODULE Spec2Model ----
(***************************************************************************)
(* Model of the document-processor Lambda                                  *)
(* (backend/lambda/functions/document-processor/index.py): the chunker     *)
(* chunk_text, and the ingestion handler with index_chunks,                *)
(* generate_embedding and create_index_if_not_exists working against a     *)
(* shared OpenSearch index.                                                *)
(*                                                                         *)
(* Texts are strings.  Positions (start, end, boundary) are 0-based as in   *)
(* the Python source; CharAt turns them into the 1-based ones of SubSeq.   *)
(***************************************************************************)
EXTENDS Integers, Sequences, FiniteSets, TLC

(***************************************************************************)
(* Bounds of the chunker specification.                                    *)
(***************************************************************************)
\* longest text built from 'a' with at most one other character
MaxLen == 10
\* all texts over the alphabet up to this length
MaxShort == 2
\* largest chunk_size tried
MaxChunkSize == 9
\* iterations of the while loop explored before a run is cut off
MaxIter == 12

Alphabet == {"a", ".", "\n", " "}

\* str.strip() with no argument removes these (of the alphabet)
Whitespace == {" ", "\n"}

(***************************************************************************)
(* Python string primitives used by chunk_text.                            *)
(***************************************************************************)
Max(a, b) == IF a >= b THEN a ELSE b

Min(a, b) == IF a <= b THEN a ELSE b

\* Python's normalisation of one slice index against a length
SliceIndex(i, n) == IF i < 0 THEN Max(i + n, 0) ELSE Min(i, n)

\* text[s:e]: negative indexes count from the end, out-of-range ones clamp
PySlice(t, s, e) ==
    LET lo == SliceIndex(s, Len(t))
        hi == SliceIndex(e, Len(t))
    IN  IF lo < hi THEN SubSeq(t, lo + 1, hi) ELSE ""

\* the i-th character of t, i counted from 1
CharAt(t, i) == SubSeq(t, i, i)

\* chunk.rfind(c): 0-based index of the last occurrence, -1 when absent
RFind(t, c) ==
    LET hits == {i \in 1..Len(t) : CharAt(t, i) = c}
    IN  IF hits = {} THEN -1 ELSE (CHOOSE i \in hits : \A j \in hits : j <= i) - 1

\* chunk.strip()
Strip(t) ==
    LET keep == {i \in 1..Len(t) : CharAt(t, i) \notin Whitespace}
    IN  IF keep = {} THEN ""
        ELSE SubSeq(t, CHOOSE i \in keep : \A j \in keep : i <= j,
                       CHOOSE i \in keep : \A j \in keep : j <= i)

(***************************************************************************)
(* One iteration of chunk_text's while loop, lines 185-208.                *)
(***************************************************************************)
\* boundary = max(last_period, last_newline) of the raw window
Boundary(t, s, cs) ==
    LET chunk == PySlice(t, s, s + cs)
    IN  Max(RFind(chunk, "."), RFind(chunk, "\n"))

\* a snap to any boundary past the window's first character
SnapsAnyBoundary(t, s, cs) == s + cs < Len(t) /\ Boundary(t, s, cs) > 0

\* the window is snapped to the boundary (lines 190 and 195)
Snaps(t, s, cs) == s + cs < Len(t) /\ Boundary(t, s, cs) > cs \div 2

\* end of the window that starts at s
WindowEnd(t, s, cs) ==
    IF Snaps(t, s, cs) THEN s + Boundary(t, s, cs) + 1 ELSE s + cs

\* the record appended to chunks
MakeChunk(t, s, cs, id) ==
    [chunk_id  |-> id,
     text      |-> Strip(PySlice(t, s, WindowEnd(t, s, cs))),
     start_pos |-> s,
     end_pos   |-> WindowEnd(t, s, cs)]

NextStartNoOverlap(end, ov) == end + 1

\* start = end - overlap
NextStart(end, ov) == end - ov

(***************************************************************************)
(* State.  The chunker's call frame: its arguments and locals.             *)
(***************************************************************************)
VARIABLES text, chunk_size, overlap, start, chunk_id, chunks, cpc

chunkVars == <<text, chunk_size, overlap, start, chunk_id, chunks, cpc>>

(***************************************************************************)
(* State of the ingestion side.  The OpenSearch index is shared by all     *)
(* invocations; the other variables are one handler invocation's locals,   *)
(* indexed by the invocation's slot.                                       *)
(***************************************************************************)
VARIABLES
    indexExists,     \* the index OPENSEARCH_INDEX exists
    indexDimension,  \* dimension of its knn_vector mapping (0 while absent)
    docs,            \* the index's documents, by id
    searchable,      \* the documents a search sees (as of the last refresh)
    now,             \* the clock read by datetime.utcnow()
    invocations,     \* handler invocations started so far
    pc,              \* where each invocation stands
    unread,          \* history: Records of its event the handler did not read
    bucket, key,     \* handler locals
    pdf,             \* the object read from S3
    next_chunk,      \* 1-based position of `for chunk in chunks`
    embedding,       \* dimension of the vector generate_embedding returned
    indexed_count,   \* index_chunks local
    result,          \* what the handler returned
    faults,          \* history: ordinals whose embedding or index call raised
    refreshes,       \* history: refresh calls made by the invocation
    wrote,           \* history: ids the invocation has written
    wroteAfterRefresh,  \* history: it wrote after its refresh
    lastOk,          \* history: the last ingestion that returned 200, with the
                     \*   index's ids at that moment
    prevOk,          \* history: the one before it, if nothing but ingestions of
                     \*   lastOk's document wrote to the index in between
    disturbed        \* history: an ingestion of another document or text has
                     \*   written since lastOk

indexVars == <<indexExists, indexDimension, docs, searchable>>

handlerVars ==
    <<now, invocations, pc, unread, bucket, key, pdf, next_chunk, embedding,
      indexed_count, result>>

historyVars ==
    <<faults, refreshes, wrote, wroteAfterRefresh, lastOk, prevOk, disturbed>>

ingestVars == <<indexVars, handlerVars, historyVars>>

(***************************************************************************)
(* State of the chat side.  The module-level configuration and the         *)
(* DynamoDB table are shared; the other variables are one chat request's   *)
(* locals and history, indexed by the request's slot.  The chat handler    *)
(* searches the index of the ingestion side (`searchable`) and reads the   *)
(* same clock (`now`).                                                     *)
(***************************************************************************)
VARIABLES
    OPENSEARCH_AVAILABLE,  \* the opensearchpy import succeeded
    OPENSEARCH_ENDPOINT,   \* os.environ.get('OPENSEARCH_ENDPOINT')
    TABLE_NAME,            \* os.environ.get('TABLE_NAME')
    table,                 \* the DynamoDB table's items, by <<PK, SK>>
    uuids,                 \* uuid.uuid4() calls made so far
    chat_pc,               \* where each request stands
    user_message, conversation_id, user_groups,   \* handler locals
    context_docs, sources, query_embedding, assistant_message,
    timestamp,             \* save_to_dynamodb local
    response,              \* what the handler returned
    body,                  \* handler local: the parsed request body
    supplied_id,           \* history: body.get('conversation_id')
    minted,                \* history: the ids uuid4 gave the request
    phases,                \* history: the handler blocks entered, in order
    retrieval_faults,      \* history: the retrieval calls that failed
    generation_raised,     \* history: query_bedrock_with_rag raised
    prompt,                \* history: the request body sent to the model
    save_calls,            \* history: calls of save_to_dynamodb
    puts                   \* history: the items the request has put

configVars == <<OPENSEARCH_AVAILABLE, OPENSEARCH_ENDPOINT, TABLE_NAME>>

requestVars ==
    <<chat_pc, body, user_message, conversation_id, user_groups, context_docs, sources,
      query_embedding, assistant_message, timestamp, response>>

chatHistoryVars ==
    <<supplied_id, minted, phases, retrieval_faults, generation_raised, prompt,
      save_calls, puts>>

chatVars == <<configVars, table, uuids, requestVars, chatHistoryVars>>

vars == <<chunkVars, ingestVars, chatVars>>

RECURSIVE TextsOfLength(_)
\* every text of n characters of the alphabet
TextsOfLength(n) ==
    IF n = 0 THEN {""} ELSE {t \o c : t \in TextsOfLength(n - 1), c \in Alphabet}

ShortTexts == UNION {TextsOfLength(n) : n \in 0..MaxShort}

RECURSIVE Repeat(_, _)
\* the character c, n times
Repeat(c, n) ==
    IF n = 0 THEN ""
    ELSE IF n % 2 = 0 THEN LET half == Repeat(c, n \div 2) IN half \o half
    ELSE c \o Repeat(c, n - 1)

\* n characters, all "a" except character c at 0-based position p
OneMark(n, p, c) ==
    IF p < n THEN Repeat("a", p) \o c \o Repeat("a", n - p - 1) ELSE Repeat("a", n)

MarkedTexts ==
    {OneMark(n, p, c) : n \in 0..MaxLen, p \in 0..(MaxLen - 1), c \in Alphabet}

Texts == ShortTexts \cup MarkedTexts

\* every (chunk_size, overlap) tried, the invalid ones included
Params ==
    {<<cs, ov>> \in (0..MaxChunkSize) \X (-1..MaxChunkSize) : ov <= cs}

\* the precondition chunk_size > overlap >= 0
ValidParams(cs, ov) == cs > ov /\ ov >= 0

(***************************************************************************)
(* The ingestion handler's constants and inputs.                           *)
(***************************************************************************)
\* bound: handler invocations in one behaviour
MaxInvocations == 2

\* bound: the last reading of the clock
MaxClock == 3
CHUNK_SIZE == 1000

CHUNK_OVERLAP == 200

\* 'dimension' of the knn_vector mapping the code creates
INDEX_DIMENSION == 1024

\* minimum extracted length the handler accepts
MIN_TEXT_LENGTH == 50

\* Titan's input limit applied by generate_embedding
EMBED_MAX_CHARS == 8000

\* invocation slots
Invs == {1, 2}

\* the slots the sequential specification uses: one invocation at a time
SeqInvs == {1}

Absent == "<absent>"

PDFS_BUCKET == "docs"

Buckets == {"docs"}

Keys == {"a.pdf", "b.pdf"}

\* S3 event notifications (a Records list) and manual invocations
S3Events ==
    {[kind |-> "s3", Records |-> r] :
        r \in {<< >>} \cup {<<[bucket |-> b, key |-> k]>> : b \in Buckets, k \in Keys}
              \cup {<<[bucket |-> b, key |-> k], [bucket |-> b, key |-> k2]>> :
                        b \in Buckets, k \in Keys, k2 \in Keys}}

ManualEvents ==
    {[kind |-> "manual", bucket |-> b, key |-> k] :
        b \in Buckets \cup {Absent}, k \in Keys \cup {Absent}}

Events == S3Events \cup ManualEvents

\* line 80-87: the (bucket, key) the handler takes from the event
EventBucket(ev) ==
    IF ev.kind = "s3" THEN ev.Records[1].bucket
    ELSE IF ev.bucket = Absent THEN PDFS_BUCKET ELSE ev.bucket

EventKey(ev) == IF ev.kind = "s3" THEN ev.Records[1].key ELSE ev.key

\* lines 82-83 read Records[0] only: the records after it
UnreadRecords(ev) ==
    IF ev.kind = "s3" /\ Len(ev.Records) > 0 THEN Tail(ev.Records) ELSE << >>

\* the objects S3 may hold under a key, named by what they are
Pdfs == {"scan", "stub", "memo", "guide", "corrupt"}

\* extract_text_from_pdf of each object (already stripped); "corrupt" makes
\* PdfReader raise
ExtractedText(p) ==
    CASE p = "scan"  -> ""
      [] p = "stub"  -> OneMark(MIN_TEXT_LENGTH - 1, 20, ".")
      [] p = "memo"  -> OneMark(MIN_TEXT_LENGTH + 10, 30, ".")
      [] p = "guide" -> OneMark(CHUNK_SIZE + 100, 700, ".")
      [] OTHER       -> ""

\* texts chunked with the deployed CHUNK_SIZE and CHUNK_OVERLAP: one window
\* or several, with a '.' or newline just below, at and above half a window
DeployedTexts ==
    {OneMark(n, p, c) :
        n \in {MIN_TEXT_LENGTH + 10, CHUNK_SIZE, CHUNK_SIZE + 100, 2 * CHUNK_SIZE + 100},
        p \in {CHUNK_SIZE \div 2, CHUNK_SIZE \div 2 + 1, 700, CHUNK_SIZE - 1, CHUNK_SIZE},
        c \in {".", "\n"}}

RECURSIVE ChunkLoop(_, _, _, _, _, _)
\* the while loop of chunk_text from start s and chunk_id id, acc = chunks
ChunkLoop(t, cs, ov, s, id, acc) ==
    IF s < Len(t)
    THEN ChunkLoop(t, cs, ov, NextStart(WindowEnd(t, s, cs), ov), id + 1,
                   Append(acc, MakeChunk(t, s, cs, id)))
    ELSE acc

\* chunk_text(text, chunk_size, overlap)
ChunkText(t, cs, ov) == ChunkLoop(t, cs, ov, 0, 0, << >>)

\* line 106, for each object: chunk_text(text, CHUNK_SIZE, CHUNK_OVERLAP)
HandlerChunks ==
    [p \in Pdfs |-> ChunkText(ExtractedText(p), CHUNK_SIZE, CHUNK_OVERLAP)]

TextLength == [p \in Pdfs |-> Len(ExtractedText(p))]

\* the dimensions a model response's 'embedding' may have; 0 is the []
\* that response_body.get('embedding', []) gives when the field is missing
ResponseDimensions == {INDEX_DIMENSION, 512, 0}

\* dimensions an index that already exists may have been created with
ExistingDimensions == {INDEX_DIMENSION, 768}

\* an id that also depends on when the chunk is indexed
DocIdWithTime(b, k, id) == b \o "/" \o k \o "/" \o ToString(id) \o "@" \o ToString(now)

\* line 265: md5 of f"{bucket}/{key}/{chunk_id}"; md5 is taken to be
\* collision-free, so the id is the formatted string
DocId(b, k, id) == b \o "/" \o k \o "/" \o ToString(id)

\* lines 224-225
Truncate(t) == IF Len(t) > EMBED_MAX_CHARS THEN SubSeq(t, 1, EMBED_MAX_CHARS) ELSE t

\* lines 268-278
Document(b, k, chunk, emb, time) ==
    [source_bucket |-> b,
     source_key    |-> k,
     chunk_id      |-> chunk.chunk_id,
     text          |-> chunk.text,
     embedding     |-> emb,
     start_pos     |-> chunk.start_pos,
     end_pos       |-> chunk.end_pos,
     indexed_at    |-> time,
     text_length   |-> Len(chunk.text)]

\* a length check that only rejects the empty text
TooShortEmptyOnly(t) == Len(t) = 0

\* line 100: `not text or len(text) < 50`
TooShort(t) == Len(t) = 0 \/ Len(t) < MIN_TEXT_LENGTH

NoResult == [statusCode |-> 0]

NoSnapshot == [bucket |-> Absent, key |-> Absent, pdf |-> Absent, ids |-> {}]

\* error_response(status_code, message)
ErrorResponse(code, message) == [statusCode |-> code, error |-> message]

(***************************************************************************)
(* The chat handler's constants, inputs and pure functions.                *)
(***************************************************************************)
\* request slots
Reqs == {1, 2}

\* search_relevant_documents' default top_k
TOP_K == 5

BEDROCK_MODEL_ID == "anthropic.claude-3-5-sonnet-20241022-v2:0"

\* the caller's claims 'sub' and 'email', as the authorizer passes them
CallerSub == "user-1"

CallerEmail == "user-1@example.org"

Messages == {"How do I renew certification?", "Hello"}

\* what json.loads(event.get('body', '{}')) gives: it raises ("invalid"), or
\* gives a value that is not an object ("list"), or an object whose fields
\* 'message' and 'conversation_id' may be absent or empty
ObjectBodies(messages, ids) ==
    {[kind |-> "object", message |-> m, conversation_id |-> c] :
        m \in messages, c \in ids}

Bodies ==
    {[kind |-> k, message |-> Absent, conversation_id |-> Absent] :
        k \in {"invalid", "list"}}
    \cup ObjectBodies({Absent, "", "How do I renew certification?"}, {Absent, "", "c1"})

\* `body` before line 61 has bound it
NoBody == [kind |-> "unbound", message |-> Absent, conversation_id |-> Absent]

\* an `if not user_message` that lets every message through
MessageMissingNever(m) == FALSE

\* line 65: `not user_message`
MessageMissing(m) == m = ""

\* the bodies of two turns of one conversation
TurnBodies == ObjectBodies(Messages, {"c1"})

\* dict.get(field, default)
Get(value, default) == IF value = Absent THEN default ELSE value

\* the 'cognito:groups' claim: absent, or a comma-separated list
GroupClaims == {Absent, "admins", "admins,staff", "staff,instructors"}

RECURSIVE Split(_, _)
\* s.split(sep) for a one-character sep
Split(s, sep) ==
    LET cuts == {i \in 1..Len(s) : CharAt(s, i) = sep}
    IN  IF cuts = {} THEN <<s>>
        ELSE LET i == CHOOSE i \in cuts : \A j \in cuts : i <= j
             IN  <<SubSeq(s, 1, i - 1)>> \o Split(SubSeq(s, i + 1, Len(s)), sep)

\* line 77: user_groups_str.split(',') if user_groups_str else []
UserGroups(user_groups_str) ==
    IF user_groups_str = "" THEN << >> ELSE Split(user_groups_str, ",")

\* `g in user_groups`
In(g, groups) == \E i \in 1..Len(groups) : groups[i] = g

\* a role chosen with staff before instructors
FallbackRoleStaffFirst(groups) ==
    IF In("staff", groups) THEN "Staff Member"
    ELSE IF In("instructors", groups) THEN "Instructor"
    ELSE IF In("admins", groups) THEN "Admin"
    ELSE "there"

\* lines 438-440
FallbackRole(groups) ==
    IF In("instructors", groups) THEN "Instructor"
    ELSE IF In("staff", groups) THEN "Staff Member"
    ELSE IF In("admins", groups) THEN "Admin"
    ELSE "there"

\* lines 444-445
FallbackNotice ==
    "I received your message but I'm experiencing technical "
    \o "difficulties connecting to my AI service. "
    \o "Please try again in a moment. If the issue persists, contact support."

\* generate_fallback_response(message, user_groups)
GenerateFallbackResponse(message, groups) ==
    LET role == FallbackRole(groups)
    IN  "Hello" \o (IF role # "there" THEN " " \o role ELSE "") \o "! "
        \o FallbackNotice

\* lines 363-372
BasePrompt ==
    "You are Learning Navigator, an AI assistant for the Mental Health "
    \o "First Aid (MHFA) program by The National Council for Mental "
    \o "Wellbeing.\n"
    \o "\n"
    \o "Your purpose is to help users by providing accurate information about "
    \o "MHFA courses, resources, and operational guidance.\n"
    \o "\n"
    \o "Guidelines:\n"
    \o "- Be helpful, professional, and empathetic\n"
    \o "- Provide clear and concise answers\n"
    \o "- If you don't know something, say so honestly\n"
    \o "- For sensitive topics, recommend contacting support\n"
    \o "- Always maintain confidentiality and privacy"

\* lines 376-380
RagGuidance ==
    "\n"
    \o "- When answering, prioritize information from the provided documents\n"
    \o "- Cite which document(s) you're referencing (e.g., \"According to "
    \o "Document 1...\")\n"
    \o "- If documents conflict, acknowledge the discrepancy\n"
    \o "- If documents are insufficient, say so and provide general guidance"

\* lines 384-421
RoleGuidance(groups) ==
    IF In("instructors", groups) THEN
    "\n"
    \o "\n"
    \o "Your current user is an MHFA Instructor. Focus on:\n"
    \o "- Course scheduling and logistics\n"
    \o "- Invoicing and payment questions\n"
    \o "- Teaching resources and materials\n"
    \o "- Certification and recertification information\n"
    \o "- Technical support for the learning platform"
    ELSE IF In("staff", groups) THEN
    "\n"
    \o "\n"
    \o "Your current user is Internal Staff. Focus on:\n"
    \o "- Operational processes and procedures\n"
    \o "- System troubleshooting and support\n"
    \o "- Administrative guidance\n"
    \o "- Organizational policies\n"
    \o "- Interdepartmental coordination"
    ELSE IF In("admins", groups) THEN
    "\n"
    \o "\n"
    \o "Your current user is an Administrator. Focus on:\n"
    \o "- System analytics and reporting\n"
    \o "- User management and permissions\n"
    \o "- Strategic planning support\n"
    \o "- Platform configuration\n"
    \o "- High-level operational oversight"
    ELSE
    "\n"
    \o "\n"
    \o "Your current user is a general user. Provide:\n"
    \o "- General MHFA information\n"
    \o "- Course availability\n"
    \o "- Basic support\n"
    \o "- Guidance on getting started"

\* a prompt that carries the citation guidance whatever the context
BuildSystemPromptAlwaysRag(groups, docs_) ==
    BasePrompt \o RagGuidance \o RoleGuidance(groups)

\* build_system_prompt(user_groups, context_docs)
BuildSystemPrompt(groups, docs_) ==
    BasePrompt \o (IF Len(docs_) > 0 THEN RagGuidance ELSE "") \o RoleGuidance(groups)

RECURSIVE Join(_, _)
\* sep.join(parts)
Join(parts, sep) ==
    IF Len(parts) = 0 THEN ""
    ELSE IF Len(parts) = 1 THEN parts[1]
    ELSE parts[1] \o sep \o Join(Tail(parts), sep)

\* line 298: f"Document {i+1}:\n{doc}", i the 1-based position here
DocumentBlock(i, doc) == "Document " \o ToString(i) \o ":\n" \o doc

EnhancedHead ==
    "Based on the following documents from our knowledge base, "
    \o "please answer the user's question.\n\nDocuments:\n"

EnhancedTail ==
    "\n\nPlease provide a helpful answer based on the documents above. "
    \o "If the documents don't contain relevant information, let the user know "
    \o "and provide general guidance if possible. "
    \o "Always cite which document(s) you're referring to."

\* lines 296-310
EnhancedMessage(message, docs_) ==
    IF Len(docs_) > 0
    THEN EnhancedHead
         \o Join([i \in 1..Len(docs_) |-> DocumentBlock(i, docs_[i])], "\n\n")
         \o "\n\nUser Question: " \o message \o EnhancedTail
    ELSE message

\* lines 313-324: the fields of request_body that depend on the request
RequestBody(message, docs_, groups) ==
    [system   |-> BuildSystemPrompt(groups, docs_),
     messages |-> <<[role |-> "user", content |-> EnhancedMessage(message, docs_)]>>]

NoPrompt == [system |-> Absent, messages |-> << >>]

Apology == "I apologize, but I couldn't generate a response. Please try again."

\* the 'content' lists a model response may carry, a block being its 'text'
ModelContents == {<< >>, <<"Renew through the instructor portal.">>, <<"">>}

\* lines 340-344
ExtractText(content_blocks) ==
    IF Len(content_blocks) > 0 THEN content_blocks[1] ELSE Apology

\* the index after one ingestion of object p under (b, k)
IngestedIndex(b, k, p) ==
    LET cs == HandlerChunks[p]
        ids == {DocId(b, k, cs[i].chunk_id) : i \in 1..Len(cs)}
    IN  [id \in ids |->
            LET i == CHOOSE i \in 1..Len(cs) : DocId(b, k, cs[i].chunk_id) = id
            IN  Document(b, k, cs[i], INDEX_DIMENSION, 1)]

\* the index as a chat request may find it: absent, empty, or holding the
\* two chunks of an ingested document
ChatIndexes ==
    {[exists |-> FALSE, dimension |-> 0, docs |-> << >>],
     [exists |-> TRUE, dimension |-> INDEX_DIMENSION, docs |-> << >>],
     [exists |-> TRUE, dimension |-> INDEX_DIMENSION,
      docs |-> IngestedIndex(PDFS_BUCKET, "a.pdf", "guide")]}

Injective(s) == \A i, j \in 1..Len(s) : s[i] = s[j] => i = j

\* the id lists a k-NN search of size TOP_K may return: distinct documents of
\* the index, at most TOP_K of them, in the server's ranking
HitIds(idx) ==
    {s \in UNION {[1..n -> DOMAIN idx] : n \in 0..Min(TOP_K, Cardinality(DOMAIN idx))} :
        Injective(s)}

\* response['hits']['hits'] for a ranking: hit i carries the _source fields
\* asked for and a _score that falls with the rank
Hits(idx, ids) ==
    [i \in 1..Len(ids) |->
        [id     |-> ids[i],
         score  |-> TOP_K + 1 - i,
         source |-> [text          |-> idx[ids[i]].text,
                     source_key    |-> idx[ids[i]].source_key,
                     chunk_id      |-> idx[ids[i]].chunk_id,
                     source_bucket |-> idx[ids[i]].source_bucket]]]

\* lines 199-201: context_docs.append(source['text'])
ContextDocs(hits) == [i \in 1..Len(hits) |-> hits[i].source.text]

\* lines 202-206
Sources(hits) ==
    [i \in 1..Len(hits) |->
        [source   |-> hits[i].source.source_key,
         chunk_id |-> hits[i].source.chunk_id,
         score    |-> hits[i].score]]

\* a flag that is set whatever was retrieved
RagEnabledAlways(docs_) == TRUE

\* line 134: len(context_docs) > 0
RagEnabled(docs_) == Len(docs_) > 0

\* json.dumps of one sources entry
JsonSource(e) ==
    "{\"source\": \"" \o e.source \o "\", \"chunk_id\": " \o ToString(e.chunk_id)
    \o ", \"score\": " \o ToString(e.score) \o "}"

\* line 504: json.dumps(sources) if sources else '[]'
JsonSources(s) ==
    IF Len(s) > 0
    THEN "[" \o Join([i \in 1..Len(s) |-> JsonSource(s[i])], ", ") \o "]"
    ELSE "[]"

\* line 475: datetime.utcnow().isoformat() + 'Z' of clock reading t
IsoTimestamp(t) == ToString(t) \o "Z"

\* lines 478-489
UserItem(cid, message, ts) ==
    [PK             |-> "CONV#" \o cid,
     SK             |-> "MSG#" \o ts \o "#USER",
     conversationId |-> cid,
     userId         |-> CallerSub,
     userEmail      |-> CallerEmail,
     role           |-> "user",
     message        |-> message,
     timestamp      |-> ts,
     GSI1PK         |-> "USER#" \o CallerSub,
     GSI1SK         |-> "CONV#" \o cid \o "#" \o ts]

\* lines 495-508
AssistantItem(cid, message, srcs, ts) ==
    [PK             |-> "CONV#" \o cid,
     SK             |-> "MSG#" \o ts \o "#ASSISTANT",
     conversationId |-> cid,
     userId         |-> CallerSub,
     userEmail      |-> CallerEmail,
     role           |-> "assistant",
     message        |-> message,
     timestamp      |-> ts,
     model          |-> BEDROCK_MODEL_ID,
     sources        |-> JsonSources(srcs),
     rag_enabled    |-> Len(srcs) > 0,
     GSI1PK         |-> "USER#" \o CallerSub,
     GSI1SK         |-> "CONV#" \o cid \o "#" \o ts]

\* the table's primary key of an item
ItemKey(item) == <<item.PK, item.SK>>

\* str(uuid.uuid4()) of the n-th call; uuid4 is taken to be collision-free
Uuid(n) == "uuid-" \o ToString(n)

ChatIdle ==
    /\ OPENSEARCH_AVAILABLE = FALSE
    /\ OPENSEARCH_ENDPOINT = Absent
    /\ TABLE_NAME = Absent
    /\ table = << >>
    /\ uuids = 0
    /\ chat_pc = [r \in Reqs |-> "idle"]
    /\ body = [r \in Reqs |-> NoBody]
    /\ user_message = [r \in Reqs |-> ""]
    /\ conversation_id = [r \in Reqs |-> Absent]
    /\ user_groups = [r \in Reqs |-> << >>]
    /\ context_docs = [r \in Reqs |-> << >>]
    /\ sources = [r \in Reqs |-> << >>]
    /\ query_embedding = [r \in Reqs |-> 0]
    /\ assistant_message = [r \in Reqs |-> Absent]
    /\ timestamp = [r \in Reqs |-> Absent]
    /\ response = [r \in Reqs |-> NoResult]
    /\ supplied_id = [r \in Reqs |-> Absent]
    /\ minted = [r \in Reqs |-> << >>]
    /\ phases = [r \in Reqs |-> << >>]
    /\ retrieval_faults = [r \in Reqs |-> {}]
    /\ generation_raised = [r \in Reqs |-> FALSE]
    /\ prompt = [r \in Reqs |-> NoPrompt]
    /\ save_calls = [r \in Reqs |-> 0]
    /\ puts = [r \in Reqs |-> << >>]

IngestIdle ==
    /\ indexExists = FALSE
    /\ indexDimension = 0
    /\ docs = << >>
    /\ searchable = << >>
    /\ now = 0
    /\ invocations = 0
    /\ pc = [i \in Invs |-> "idle"]
    /\ unread = [i \in Invs |-> << >>]
    /\ bucket = [i \in Invs |-> Absent]
    /\ key = [i \in Invs |-> Absent]
    /\ pdf = [i \in Invs |-> Absent]
    /\ next_chunk = [i \in Invs |-> 0]
    /\ embedding = [i \in Invs |-> 0]
    /\ indexed_count = [i \in Invs |-> 0]
    /\ result = [i \in Invs |-> NoResult]
    /\ faults = [i \in Invs |-> {}]
    /\ refreshes = [i \in Invs |-> 0]
    /\ wrote = [i \in Invs |-> {}]
    /\ wroteAfterRefresh = [i \in Invs |-> FALSE]
    /\ lastOk = NoSnapshot
    /\ prevOk = NoSnapshot
    /\ disturbed = FALSE

ChunkIdle ==
    /\ text = ""
    /\ chunk_size = CHUNK_SIZE
    /\ overlap = CHUNK_OVERLAP
    /\ start = 0
    /\ chunk_id = 0
    /\ chunks = << >>
    /\ cpc = "done"

ChunkInit ==
    /\ IngestIdle
    /\ ChatIdle
    /\ \/ /\ text \in Texts
          /\ \E p \in Params : chunk_size = p[1] /\ overlap = p[2]
       \/ /\ text \in DeployedTexts
          /\ chunk_size = CHUNK_SIZE
          /\ overlap = CHUNK_OVERLAP
    /\ start = 0
    /\ chunk_id = 0
    /\ chunks = << >>
    /\ cpc = "loop"

\* one pass through the body of `while start < len(text)`
ChunkStep ==
    /\ cpc = "loop"
    /\ start < Len(text)
    /\ chunk_id < MaxIter
    /\ chunks' = Append(chunks, MakeChunk(text, start, chunk_size, chunk_id))
    /\ start' = NextStart(WindowEnd(text, start, chunk_size), overlap)
    /\ chunk_id' = chunk_id + 1
    /\ UNCHANGED <<text, chunk_size, overlap, cpc, ingestVars, chatVars>>

\* the loop condition fails: return chunks
ChunkReturn ==
    /\ cpc = "loop"
    /\ start >= Len(text)
    /\ cpc' = "done"
    /\ UNCHANGED <<text, chunk_size, overlap, start, chunk_id, chunks, ingestVars,
                   chatVars>>

ChunkNext == ChunkStep \/ ChunkReturn

\* the chunker alone, on every text and parameter pair of the bounds
SpecChunk == ChunkInit /\ [][ChunkNext]_vars /\ WF_vars(ChunkNext)

(***************************************************************************)
(* Claims about chunk_text, checked under SpecChunk.                       *)
(***************************************************************************)

\* The loop is cut off at MaxIter only in runs that have come back to a start
\* they already processed: text, chunk_size and overlap never change, so the
\* next start is a function of start alone and such a run loops for ever.
Revisits == \E i \in 1..Len(chunks) : chunks[i].start_pos = start

CutOffOnlyWhenLooping ==
    (cpc = "loop" /\ start < Len(text) /\ chunk_id = MaxIter) => Revisits

\* C1: for 0 <= overlap < chunk_size chunk_text terminates.  The loop's next
\* start is a function of the current start only, so it terminates exactly
\* when it never comes back to a start it has already processed.
C1_Terminates ==
    (ValidParams(chunk_size, overlap) /\ cpc = "loop" /\ start < Len(text))
        => ~Revisits

\* C2: a non-empty text shorter than chunk_size gives exactly one chunk, whose
\* text is the stripped input.
C2_ShortTextOneChunk ==
    (cpc = "done" /\ ValidParams(chunk_size, overlap)
        /\ 0 < Len(text) /\ Len(text) < chunk_size)
        => (Len(chunks) = 1 /\ chunks[1].text = Strip(text))

\* C3: when chunk_text returns for valid parameters the chunk_id values are
\* 0,1,2,... in list order, the first chunk starts at 0, chunk i+1 starts at or
\* before the end of chunk i, the last chunk ends at or after len(text), every
\* character position lies in some span, and empty input gives no chunk.
C3_ContiguousCover ==
    (cpc = "done" /\ ValidParams(chunk_size, overlap)) =>
        /\ \A i \in 1..Len(chunks) : chunks[i].chunk_id = i - 1
        /\ Len(chunks) > 0 => chunks[1].start_pos = 0
        /\ \A i \in 1..(Len(chunks) - 1) :
              chunks[i + 1].start_pos <= chunks[i].end_pos
        /\ Len(chunks) > 0 => chunks[Len(chunks)].end_pos >= Len(text)
        /\ \A p \in 0..(Len(text) - 1) :
              \E i \in 1..Len(chunks) :
                  chunks[i].start_pos <= p /\ p < chunks[i].end_pos
        /\ Len(text) = 0 => chunks = << >>

\* a returned list of three or more chunks, one of them snapped to a boundary
C3_Witness ==
    /\ cpc = "done" /\ ValidParams(chunk_size, overlap)
    /\ Len(chunks) >= 3
    /\ overlap > 0
    /\ \E i \in 1..Len(chunks) :
          chunks[i].end_pos < chunks[i].start_pos + chunk_size

\* C4: for valid parameters the chunks come in non-decreasing start_pos order,
\* consecutive chunks overlap by at most `overlap` characters, and each
\* chunk's end_pos is greater than the previous chunk's start_pos.
C4_OrderedStarts ==
    (cpc = "done" /\ ValidParams(chunk_size, overlap)) =>
        \A i \in 1..(Len(chunks) - 1) :
            /\ chunks[i].start_pos <= chunks[i + 1].start_pos
            /\ chunks[i].end_pos - chunks[i + 1].start_pos <= overlap
            /\ chunks[i + 1].end_pos > chunks[i].start_pos

\* C5: with parameters that violate chunk_size > overlap >= 0 the call fails
\* with InvalidParameters: it neither produces a chunk nor returns a list.
C5_RejectsInvalidParams ==
    ~ValidParams(chunk_size, overlap) => (chunks = << >> /\ cpc # "done")

(***************************************************************************)
(* The ingestion handler, one action per external call.  Every exception   *)
(* is caught by the handler's `except Exception` (lines 125-129), which    *)
(* returns error_response(500, ...).                                       *)
(***************************************************************************)
Put(f, id, d) == [x \in DOMAIN f \cup {id} |-> IF x = id THEN d ELSE f[x]]

\* the handler returns r
Return(inv, r) ==
    /\ pc' = [pc EXCEPT ![inv] = "done"]
    /\ result' = [result EXCEPT ![inv] = r]

\* an exception reaches the handler's except clause
Raise(inv, message) == Return(inv, ErrorResponse(500, message))

\* chunks of the invocation's document
Chunks(inv) == HandlerChunks[pdf[inv]]

\* the invocation ingests the document and text of snapshot s
SameDocument(inv, s) ==
    bucket[inv] = s.bucket /\ key[inv] = s.key /\ pdf[inv] = s.pdf

\* lines 74-92: a new invocation with an event of `events`; dependency check
\* and event parsing.  The clock `now` advances with every invocation started.
BeginWith(inv, events) ==
    /\ pc[inv] \in {"idle", "done"}
    /\ invocations < MaxInvocations
    /\ invocations' = invocations + 1
    /\ now' = now + 1
    /\ \E ev \in events, deps \in BOOLEAN :
        /\ unread' = [unread EXCEPT ![inv] = UnreadRecords(ev)]
        /\ IF ~deps
           THEN /\ Return(inv, ErrorResponse(500, "Missing dependencies"))
                /\ UNCHANGED <<bucket, key>>
           ELSE IF ev.kind = "s3" /\ Len(ev.Records) = 0
           THEN /\ Raise(inv, "IndexError")
                /\ UNCHANGED <<bucket, key>>
           ELSE /\ bucket' = [bucket EXCEPT ![inv] = EventBucket(ev)]
                /\ key' = [key EXCEPT ![inv] = EventKey(ev)]
                /\ IF EventBucket(ev) = Absent \/ EventKey(ev) = Absent
                   THEN Return(inv, ErrorResponse(400, "Missing bucket or key parameter"))
                   ELSE /\ pc' = [pc EXCEPT ![inv] = "download"]
                        /\ result' = [result EXCEPT ![inv] = NoResult]
    /\ pdf' = [pdf EXCEPT ![inv] = Absent]
    /\ next_chunk' = [next_chunk EXCEPT ![inv] = 0]
    /\ embedding' = [embedding EXCEPT ![inv] = 0]
    /\ indexed_count' = [indexed_count EXCEPT ![inv] = 0]
    /\ faults' = [faults EXCEPT ![inv] = {}]
    /\ refreshes' = [refreshes EXCEPT ![inv] = 0]
    /\ wrote' = [wrote EXCEPT ![inv] = {}]
    /\ wroteAfterRefresh' = [wroteAfterRefresh EXCEPT ![inv] = FALSE]
    /\ UNCHANGED <<indexVars, chunkVars, chatVars, lastOk, prevOk, disturbed>>

\* an invocation with any event
Begin(inv) == BeginWith(inv, Events)

\* lines 94-107: download, extract, length check, chunk
Download(inv) ==
    /\ pc[inv] = "download"
    /\ \/ \* get_object raises (no such key, access denied)
          /\ Raise(inv, "S3Error")
          /\ pdf' = pdf
       \/ \E p \in Pdfs :
            /\ pdf' = [pdf EXCEPT ![inv] = p]
            /\ IF p = "corrupt"
               THEN Raise(inv, "PdfReadError")
               ELSE IF TooShort(ExtractedText(p))
               THEN Return(inv, ErrorResponse(400, "No text extracted from PDF or text too short"))
               ELSE /\ pc' = [pc EXCEPT ![inv] = "exists"]
                    /\ result' = result
    /\ UNCHANGED <<indexVars, chunkVars, chatVars, historyVars, now, invocations, unread,
                   bucket, key, next_chunk, embedding, indexed_count>>

\* where index_chunks goes once the index is there: the for loop, or past it
LoopEntry(inv) == IF Len(Chunks(inv)) = 0 THEN "refresh" ELSE "embed"

\* lines 252-256 and 333-335: get_opensearch_client and indices.exists
CheckIndex(inv) ==
    /\ pc[inv] = "exists"
    /\ \/ Raise(inv, "IndexUnavailable")
       \/ /\ pc' = [pc EXCEPT ![inv] = IF indexExists THEN LoopEntry(inv) ELSE "create"]
          /\ result' = result
    /\ next_chunk' = [next_chunk EXCEPT ![inv] = 1]
    /\ UNCHANGED <<indexVars, chunkVars, chatVars, historyVars, now, invocations, unread,
                   bucket, key, pdf, embedding, indexed_count>>

\* lines 337-375: indices.create; the server refuses to create an index that
\* exists
CreateIndex(inv) ==
    /\ pc[inv] = "create"
    /\ \/ /\ Raise(inv, "IndexUnavailable")
          /\ UNCHANGED <<indexExists, indexDimension>>
       \/ /\ indexExists
          /\ Raise(inv, "resource_already_exists_exception")
          /\ UNCHANGED <<indexExists, indexDimension>>
       \/ /\ ~indexExists
          /\ indexExists' = TRUE
          /\ indexDimension' = INDEX_DIMENSION
          /\ pc' = [pc EXCEPT ![inv] = LoopEntry(inv)]
          /\ result' = result
    /\ UNCHANGED <<docs, searchable, chunkVars, chatVars, historyVars, now, invocations,
                   unread, bucket, key, pdf, next_chunk, embedding, indexed_count>>

\* lines 262 and 213-237: generate_embedding(chunk['text'])
Embed(inv) ==
    /\ pc[inv] = "embed"
    /\ \/ /\ Raise(inv, "EmbeddingUnavailable")
          /\ faults' = [faults EXCEPT ![inv] = @ \cup {Chunks(inv)[next_chunk[inv]].chunk_id}]
          /\ embedding' = embedding
       \/ \E d \in ResponseDimensions :
            /\ embedding' = [embedding EXCEPT ![inv] = d]
            /\ pc' = [pc EXCEPT ![inv] = "index"]
            /\ UNCHANGED <<result, faults>>
    /\ UNCHANGED <<indexVars, chunkVars, chatVars, refreshes, wrote, wroteAfterRefresh, lastOk,
                   prevOk, disturbed, now, invocations, unread, bucket, key, pdf,
                   next_chunk, indexed_count>>

\* the failure is logged and the loop goes on with the next chunk
IndexRaisedSkips(inv) ==
    /\ faults' = [faults EXCEPT ![inv] = @ \cup {Chunks(inv)[next_chunk[inv]].chunk_id}]
    /\ next_chunk' = [next_chunk EXCEPT ![inv] = @ + 1]
    /\ pc' = [pc EXCEPT ![inv] =
                 IF next_chunk[inv] < Len(Chunks(inv)) THEN "embed" ELSE "refresh"]
    /\ UNCHANGED <<docs, wrote, wroteAfterRefresh, disturbed, indexed_count, result>>

\* the index call raised
IndexRaised(inv) ==
    /\ Raise(inv, "IndexUnavailable")
    /\ faults' = [faults EXCEPT ![inv] = @ \cup {Chunks(inv)[next_chunk[inv]].chunk_id}]
    /\ UNCHANGED <<docs, wrote, wroteAfterRefresh, disturbed, next_chunk, indexed_count>>

\* lines 264-288: build the document and index it under doc_id
IndexChunk(inv) ==
    /\ pc[inv] = "index"
    /\ LET chunk == Chunks(inv)[next_chunk[inv]]
           doc_id == DocId(bucket[inv], key[inv], chunk.chunk_id)
       IN  \/ IndexRaised(inv)
           \/ /\ docs' = Put(docs, doc_id,
                             Document(bucket[inv], key[inv], chunk, embedding[inv], now))
              /\ wrote' = [wrote EXCEPT ![inv] = @ \cup {doc_id}]
              /\ wroteAfterRefresh' =
                    [wroteAfterRefresh EXCEPT ![inv] = @ \/ refreshes[inv] > 0]
              /\ disturbed' = (disturbed \/ ~SameDocument(inv, lastOk))
              /\ indexed_count' = [indexed_count EXCEPT ![inv] = @ + 1]
              /\ next_chunk' = [next_chunk EXCEPT ![inv] = @ + 1]
              /\ pc' = [pc EXCEPT ![inv] =
                           IF next_chunk[inv] < Len(Chunks(inv)) THEN "embed" ELSE "refresh"]
              /\ UNCHANGED <<result, faults>>
    /\ UNCHANGED <<indexExists, indexDimension, searchable, chunkVars, chatVars, refreshes, lastOk,
                   prevOk, now, invocations, unread, bucket, key, pdf, embedding>>

\* index_chunks returns without refreshing
RefreshSkipped(inv) ==
    /\ pc[inv] = "refresh"
    /\ pc' = [pc EXCEPT ![inv] = "respond"]
    /\ UNCHANGED <<indexVars, chunkVars, chatVars, historyVars, now, invocations, unread, bucket,
                   key, pdf, next_chunk, embedding, indexed_count, result>>

\* line 291: indices.refresh
Refresh(inv) ==
    /\ pc[inv] = "refresh"
    /\ \/ /\ Raise(inv, "IndexUnavailable")
          /\ UNCHANGED <<searchable, refreshes>>
       \/ /\ searchable' = docs
          /\ refreshes' = [refreshes EXCEPT ![inv] = @ + 1]
          /\ pc' = [pc EXCEPT ![inv] = "respond"]
          /\ result' = result
    /\ UNCHANGED <<indexExists, indexDimension, docs, chunkVars, chatVars, faults, wrote,
                   wroteAfterRefresh, lastOk, prevOk, disturbed, now, invocations, unread, bucket, key, pdf,
                   next_chunk, embedding, indexed_count>>

\* lines 112-123: the success result
Respond(inv) ==
    /\ pc[inv] = "respond"
    /\ Return(inv, [statusCode     |-> 200,
                    bucket         |-> bucket[inv],
                    key            |-> key[inv],
                    text_length    |-> TextLength[pdf[inv]],
                    chunks_created |-> Len(Chunks(inv)),
                    chunks_indexed |-> indexed_count[inv]])
    /\ lastOk' = [bucket |-> bucket[inv], key |-> key[inv], pdf |-> pdf[inv],
                  ids |-> DOMAIN docs]
    /\ prevOk' = IF disturbed THEN NoSnapshot ELSE lastOk
    /\ disturbed' = FALSE
    /\ UNCHANGED <<indexVars, chunkVars, chatVars, faults, refreshes, wrote, wroteAfterRefresh,
                   now, invocations, unread, bucket, key, pdf, next_chunk, embedding,
                   indexed_count>>

\* the index as the first invocation may find it: absent, or created earlier
IngestInit ==
    /\ ChunkIdle
    /\ ChatIdle
    /\ indexExists \in BOOLEAN
    /\ indexDimension \in (IF indexExists THEN ExistingDimensions ELSE {0})
    /\ docs = << >>
    /\ searchable = << >>
    /\ now = 0
    /\ invocations = 0
    /\ pc = [i \in Invs |-> "idle"]
    /\ unread = [i \in Invs |-> << >>]
    /\ bucket = [i \in Invs |-> Absent]
    /\ key = [i \in Invs |-> Absent]
    /\ pdf = [i \in Invs |-> Absent]
    /\ next_chunk = [i \in Invs |-> 0]
    /\ embedding = [i \in Invs |-> 0]
    /\ indexed_count = [i \in Invs |-> 0]
    /\ result = [i \in Invs |-> NoResult]
    /\ faults = [i \in Invs |-> {}]
    /\ refreshes = [i \in Invs |-> 0]
    /\ wrote = [i \in Invs |-> {}]
    /\ wroteAfterRefresh = [i \in Invs |-> FALSE]
    /\ lastOk = NoSnapshot
    /\ prevOk = NoSnapshot
    /\ disturbed = FALSE

IngestNext ==
    \E inv \in SeqInvs :
        \/ Begin(inv)
        \/ Download(inv)
        \/ CheckIndex(inv)
        \/ CreateIndex(inv)
        \/ Embed(inv)
        \/ IndexChunk(inv)
        \/ Refresh(inv)
        \/ Respond(inv)

\* handler invocations against one index
SpecIngest == IngestInit /\ [][IngestNext]_vars

(***************************************************************************)
(* Claims about the ingestion handler, checked under SpecIngest.           *)
(***************************************************************************)

\* the ids of the chunks of the invocation's document
ChunkIds(inv) ==
    {DocId(bucket[inv], key[inv], Chunks(inv)[i].chunk_id) : i \in 1..Len(Chunks(inv))}

Succeeded(inv) == pc[inv] = "done" /\ result[inv].statusCode = 200

\* C6: ingesting the same (bucket, key) twice with identical text leaves the
\* index with the same set of entry ids, and as many entries, as after the
\* first ingestion.
C6_ReingestSameIds ==
    (prevOk # NoSnapshot /\ prevOk.bucket = lastOk.bucket
        /\ prevOk.key = lastOk.key /\ prevOk.pdf = lastOk.pdf)
        => /\ lastOk.ids = prevOk.ids
           /\ Cardinality(lastOk.ids) = Cardinality(prevOk.ids)

\* the two-chunk document has been ingested twice in a row, both times with 200
C6_Witness ==
    /\ prevOk # NoSnapshot
    /\ prevOk.bucket = lastOk.bucket /\ prevOk.key = lastOk.key
    /\ prevOk.pdf = "guide" /\ lastOk.pdf = "guide"
    /\ Cardinality(lastOk.ids) = 2
    /\ \E id \in DOMAIN docs : docs[id].indexed_at = 2

\* C7: no chunk is silently skipped: once the embedding or the index write
\* of a chunk has failed the invocation ends with an error result, and every
\* 200 result reports chunks_indexed = chunks_created, with every chunk of the
\* document written.
C7_NoSilentSkip ==
    \A inv \in Invs :
        /\ faults[inv] # {} => (pc[inv] = "done" /\ result[inv].statusCode = 500)
        /\ Succeeded(inv) =>
              /\ result[inv].chunks_indexed = result[inv].chunks_created
              /\ result[inv].chunks_created = Len(Chunks(inv))
              /\ ChunkIds(inv) \subseteq wrote[inv]

\* an ingestion of the two-chunk document failed on its second chunk, after
\* the first one was written
C7_Witness ==
    \E inv \in Invs :
        /\ pc[inv] = "done" /\ result[inv].statusCode = 500
        /\ faults[inv] = {1}
        /\ indexed_count[inv] = 1

\* C8: an ingestion that returns success has called refresh exactly once,
\* after its last upsert and before the result is built, and wrote nothing
\* after it: every entry it wrote is what a search now sees.
C8_RefreshOnceAfterUpserts ==
    \A inv \in Invs :
        /\ pc[inv] = "respond" =>
              (refreshes[inv] = 1 /\ next_chunk[inv] > Len(Chunks(inv)))
        /\ Succeeded(inv) =>
              /\ refreshes[inv] = 1
              /\ ~wroteAfterRefresh[inv]
              /\ ChunkIds(inv) \subseteq wrote[inv]
              /\ \A id \in wrote[inv] :
                    id \in DOMAIN searchable /\ searchable[id] = docs[id]

\* a successful ingestion of the two-chunk document
C8_Witness ==
    \E inv \in Invs :
        /\ Succeeded(inv)
        /\ Cardinality(wrote[inv]) = 2
        /\ refreshes[inv] = 1

\* C9: create_index_if_not_exists creates the index when absent, leaves a
\* matching index alone, and fails with SchemaConflict on an index of another
\* vector dimension: an invocation that is past it works on an index of the
\* configured dimension.
C9_EnsureSchema ==
    \A inv \in Invs :
        pc[inv] \in {"embed", "index", "refresh", "respond"}
            => (indexExists /\ indexDimension = INDEX_DIMENSION)

\* C10: no entry is upserted with an embedding whose dimension is not the
\* index's 1024: the index call is never reached with such a vector, and no
\* document of the index holds one.
C10_DimensionChecked ==
    (indexExists /\ indexDimension = INDEX_DIMENSION) =>
        /\ \A inv \in Invs : pc[inv] = "index" => embedding[inv] = INDEX_DIMENSION
        /\ \A id \in DOMAIN docs : docs[id].embedding = INDEX_DIMENSION

\* C11: when the extracted text is empty or shorter than 50 characters the
\* handler returns a 400 result straight from the length check: index_chunks
\* is never entered (no embedding call, no index creation, no index write, no
\* refresh) and the index is left exactly as it was.
C11_ShortTextRejected ==
    [][\A inv \in Invs :
          (pdf'[inv] \in Pdfs \ {"corrupt"}
              /\ TextLength[pdf'[inv]] < MIN_TEXT_LENGTH)
          => /\ pc'[inv] = "done"
             /\ result'[inv].statusCode = 400
             /\ next_chunk'[inv] = 0
             /\ wrote'[inv] = {}
             /\ refreshes'[inv] = 0
             /\ pc[inv] = "download" => UNCHANGED indexVars]_vars

\* the 49-character document was rejected while the index held the entries of
\* an earlier ingestion
C11_Witness ==
    \E inv \in Invs :
        /\ pdf[inv] = "stub"
        /\ pc[inv] = "done" /\ result[inv].statusCode = 400
        /\ docs # << >>

(***************************************************************************)
(* The chat handler, src/backend/lambda/functions/chat/index.py, one       *)
(* action per step of handler(event, context) for the request in slot r.   *)
(***************************************************************************)
\* the handler returns resp
ChatReturn(r, resp) ==
    /\ chat_pc' = [chat_pc EXCEPT ![r] = "done"]
    /\ response' = [response EXCEPT ![r] = resp]

\* the handler block the request enters next is recorded
Enter(r, phase) == phases' = [phases EXCEPT ![r] = Append(@, phase)]

\* lines 59-81: parse the body, validate the message, read the claims, take
\* or generate the conversation id
ChatBegin(r, bodies, claims) ==
    /\ chat_pc[r] = "idle"
    /\ \E b \in bodies, user_groups_str \in claims :
        IF b.kind = "invalid"
        THEN /\ ChatReturn(r, ErrorResponse(500, "Internal server error"))
             /\ UNCHANGED <<body, user_message, conversation_id, user_groups, uuids,
                            supplied_id, minted, phases>>
        ELSE IF b.kind # "object"
        THEN /\ body' = [body EXCEPT ![r] = b]
             /\ ChatReturn(r, ErrorResponse(500, "Internal server error"))
             /\ UNCHANGED <<user_message, conversation_id, user_groups, uuids,
                            supplied_id, minted, phases>>
        ELSE /\ body' = [body EXCEPT ![r] = b]
             /\ user_message' = [user_message EXCEPT ![r] = Get(b.message, "")]
             /\ supplied_id' = [supplied_id EXCEPT ![r] = b.conversation_id]
             /\ IF MessageMissing(Get(b.message, ""))
                THEN /\ ChatReturn(r, ErrorResponse(400, "Message is required"))
                     /\ UNCHANGED <<conversation_id, user_groups, uuids, minted, phases>>
                ELSE /\ user_groups' =
                            [user_groups EXCEPT ![r] = UserGroups(Get(user_groups_str, ""))]
                     /\ IF b.conversation_id \in {Absent, ""}
                        THEN /\ uuids' = uuids + 1
                             /\ conversation_id' =
                                    [conversation_id EXCEPT ![r] = Uuid(uuids + 1)]
                             /\ minted' = [minted EXCEPT ![r] = Append(@, Uuid(uuids + 1))]
                        ELSE /\ conversation_id' =
                                    [conversation_id EXCEPT ![r] = b.conversation_id]
                             /\ UNCHANGED <<uuids, minted>>
                     /\ Enter(r, "Received")
                     /\ chat_pc' = [chat_pc EXCEPT ![r] = "retrieve"]
                     /\ response' = response
    /\ UNCHANGED <<chunkVars, ingestVars, configVars, table, context_docs, sources,
                   query_embedding, assistant_message, timestamp, retrieval_faults,
                   generation_raised, prompt, save_calls, puts>>

\* lines 85-96: context_docs = [], sources = [], and the search only when
\* OpenSearch is configured
EnterRetrieval(r) ==
    /\ chat_pc[r] = "retrieve"
    /\ Enter(r, "Retrieving")
    /\ chat_pc' = [chat_pc EXCEPT ![r] =
                      IF OPENSEARCH_AVAILABLE /\ OPENSEARCH_ENDPOINT # Absent
                      THEN "embed" ELSE "generate"]
    /\ UNCHANGED <<chunkVars, ingestVars, configVars, body, table, uuids, user_message,
                   conversation_id, user_groups, context_docs, sources, query_embedding,
                   assistant_message, timestamp, response, supplied_id, minted,
                   retrieval_faults, generation_raised, prompt, save_calls, puts>>

\* a generate_embedding that answers a failure with a vector of the index's
\* dimension
QueryEmbeddingPadded(r) ==
    /\ chat_pc[r] = "embed"
    /\ \/ /\ query_embedding' = [query_embedding EXCEPT ![r] = INDEX_DIMENSION]
          /\ retrieval_faults' = [retrieval_faults EXCEPT ![r] = @ \cup {"embedding"}]
       \/ \E d \in ResponseDimensions :
            /\ query_embedding' = [query_embedding EXCEPT ![r] = d]
            /\ retrieval_faults' = retrieval_faults
    /\ chat_pc' = [chat_pc EXCEPT ![r] = "client"]
    /\ UNCHANGED <<chunkVars, ingestVars, configVars, body, table, uuids, user_message,
                   conversation_id, user_groups, context_docs, sources,
                   assistant_message, timestamp, response, supplied_id, minted, phases,
                   generation_raised, prompt, save_calls, puts>>

\* lines 171 and 215-243: generate_embedding(query), which returns [] when
\* the model call raises
QueryEmbedding(r) ==
    /\ chat_pc[r] = "embed"
    /\ \/ /\ query_embedding' = [query_embedding EXCEPT ![r] = 0]
          /\ retrieval_faults' = [retrieval_faults EXCEPT ![r] = @ \cup {"embedding"}]
       \/ \E d \in ResponseDimensions :
            /\ query_embedding' = [query_embedding EXCEPT ![r] = d]
            /\ retrieval_faults' = retrieval_faults
    /\ chat_pc' = [chat_pc EXCEPT ![r] = "client"]
    /\ UNCHANGED <<chunkVars, ingestVars, configVars, body, table, uuids, user_message,
                   conversation_id, user_groups, context_docs, sources,
                   assistant_message, timestamp, response, supplied_id, minted, phases,
                   generation_raised, prompt, save_calls, puts>>

\* lines 174 and 246-273: get_opensearch_client(); when it raises the
\* handler's except at line 93 leaves context_docs and sources empty
GetClient(r) ==
    /\ chat_pc[r] = "client"
    /\ \/ /\ retrieval_faults' = [retrieval_faults EXCEPT ![r] = @ \cup {"client"}]
          /\ chat_pc' = [chat_pc EXCEPT ![r] = "generate"]
       \/ /\ retrieval_faults' = retrieval_faults
          /\ chat_pc' = [chat_pc EXCEPT ![r] = "search"]
    /\ UNCHANGED <<chunkVars, ingestVars, configVars, body, table, uuids, user_message,
                   conversation_id, user_groups, context_docs, sources, query_embedding,
                   assistant_message, timestamp, response, supplied_id, minted, phases,
                   generation_raised, prompt, save_calls, puts>>

\* the search raised and line 210 returned [], []
SearchRaised(r) ==
    /\ retrieval_faults' = [retrieval_faults EXCEPT ![r] = @ \cup {"search"}]
    /\ context_docs' = [context_docs EXCEPT ![r] = << >>]
    /\ sources' = [sources EXCEPT ![r] = << >>]

\* lines 176-212: the k-NN search and the mapping of its hits.  The server
\* answers only for an index that exists and a query vector of the dimension
\* of its mapping; otherwise, or when it cannot be reached, search raises.
Search(r) ==
    /\ chat_pc[r] = "search"
    /\ \/ SearchRaised(r)
       \/ /\ indexExists /\ query_embedding[r] = indexDimension
          /\ \E ids \in HitIds(searchable) :
                /\ context_docs' =
                      [context_docs EXCEPT ![r] = ContextDocs(Hits(searchable, ids))]
                /\ sources' = [sources EXCEPT ![r] = Sources(Hits(searchable, ids))]
          /\ retrieval_faults' = retrieval_faults
    /\ chat_pc' = [chat_pc EXCEPT ![r] = "generate"]
    /\ UNCHANGED <<chunkVars, ingestVars, configVars, body, table, uuids, user_message,
                   conversation_id, user_groups, query_embedding, assistant_message,
                   timestamp, response, supplied_id, minted, phases, generation_raised,
                   prompt, save_calls, puts>>

\* a handler that answers a fallback turn without saving it
AfterGenerationSkipsFallback(raised) == IF raised THEN "respond" ELSE "save"

\* lines 112-113: the save block follows the generation block, whether the
\* model answered or the fallback was taken
AfterGeneration(raised) == "save"

\* lines 99-110 and 276-348: query_bedrock_with_rag builds the request and
\* invokes the model; when anything in it raises the handler takes the
\* fallback text
Generate(r) ==
    /\ chat_pc[r] = "generate"
    /\ Enter(r, "Generating")
    /\ prompt' = [prompt EXCEPT ![r] =
                     RequestBody(user_message[r], context_docs[r], user_groups[r])]
    /\ \/ /\ generation_raised' = [generation_raised EXCEPT ![r] = TRUE]
          /\ assistant_message' =
                [assistant_message EXCEPT ![r] =
                    GenerateFallbackResponse(user_message[r], user_groups[r])]
          /\ chat_pc' = [chat_pc EXCEPT ![r] = AfterGeneration(TRUE)]
       \/ \E content \in ModelContents :
            /\ assistant_message' = [assistant_message EXCEPT ![r] = ExtractText(content)]
            /\ generation_raised' = generation_raised
            /\ chat_pc' = [chat_pc EXCEPT ![r] = AfterGeneration(FALSE)]
    /\ UNCHANGED <<chunkVars, ingestVars, configVars, body, table, uuids, user_message,
                   conversation_id, user_groups, context_docs, sources, query_embedding,
                   timestamp, response, supplied_id, minted, retrieval_faults,
                   save_calls, puts>>

\* table.put_item(Item=item): the item replaces whatever the table holds
\* under its key
PutItem(r, item) ==
    /\ table' = Put(table, ItemKey(item), item)
    /\ puts' = [puts EXCEPT ![r] = Append(@, item)]

\* a put_item failure that reaches the handler's outer except
PutRaisedPropagates(r) ==
    /\ ChatReturn(r, ErrorResponse(500, "Internal server error"))
    /\ UNCHANGED <<table, puts>>

\* a put_item failure after which the handler saves again
PutRaisedRetries(r) ==
    /\ chat_pc' = [chat_pc EXCEPT ![r] = "save"]
    /\ response' = response
    /\ UNCHANGED <<table, puts>>

\* lines 122-124: put_item raised; the except logs it and the handler goes on
\* to build the response
PutRaised(r) ==
    /\ chat_pc' = [chat_pc EXCEPT ![r] = "respond"]
    /\ response' = response
    /\ UNCHANGED <<table, puts>>

\* lines 113-124 and 474-490: save_to_dynamodb is called; it returns at once
\* without a table, else it reads the clock and puts the user's message.  A
\* put_item that raises ends the call in the handler's except at line 122.
Save(r) ==
    /\ chat_pc[r] = "save"
    /\ Enter(r, "Persisted")
    /\ save_calls' = [save_calls EXCEPT ![r] = @ + 1]
    /\ IF TABLE_NAME = Absent
       THEN /\ chat_pc' = [chat_pc EXCEPT ![r] = "respond"]
            /\ UNCHANGED <<table, puts, timestamp, response>>
       ELSE /\ timestamp' = [timestamp EXCEPT ![r] = IsoTimestamp(now)]
            /\ \/ PutRaised(r)
               \/ /\ PutItem(r, UserItem(conversation_id[r], user_message[r],
                                         IsoTimestamp(now)))
                  /\ chat_pc' = [chat_pc EXCEPT ![r] = "put_assistant"]
                  /\ response' = response
    /\ UNCHANGED <<chunkVars, ingestVars, configVars, body, uuids, user_message,
                   conversation_id, user_groups, context_docs, sources, query_embedding,
                   assistant_message, supplied_id, minted, retrieval_faults,
                   generation_raised, prompt>>

\* lines 492-511: the assistant's message is put under the same timestamp
PutAssistant(r) ==
    /\ chat_pc[r] = "put_assistant"
    /\ \/ PutRaised(r)
       \/ /\ PutItem(r, AssistantItem(conversation_id[r], assistant_message[r],
                                      sources[r], timestamp[r]))
          /\ chat_pc' = [chat_pc EXCEPT ![r] = "respond"]
          /\ response' = response
    /\ UNCHANGED <<chunkVars, ingestVars, configVars, body, uuids, user_message,
                   conversation_id, user_groups, context_docs, sources, query_embedding,
                   assistant_message, timestamp, supplied_id, minted, phases,
                   retrieval_faults, generation_raised, prompt, save_calls>>

\* a response that echoes the id of the request body
ResponseBodyEchoesId(r) ==
    [conversation_id |-> supplied_id[r],
     message         |-> assistant_message[r],
     sources         |-> sources[r],
     user_id         |-> CallerSub,
     model           |-> BEDROCK_MODEL_ID,
     rag_enabled     |-> RagEnabled(context_docs[r])]

\* lines 127-135: response_body, without its 'timestamp'
ResponseBody(r) ==
    [conversation_id |-> conversation_id[r],
     message         |-> assistant_message[r],
     sources         |-> sources[r],
     user_id         |-> CallerSub,
     model           |-> BEDROCK_MODEL_ID,
     rag_enabled     |-> RagEnabled(context_docs[r])]

\* lines 126-145: build the response and return it with statusCode 200
ChatRespond(r) ==
    /\ chat_pc[r] = "respond"
    /\ Enter(r, "Responded")
    /\ ChatReturn(r, [statusCode |-> 200, body |-> ResponseBody(r)])
    /\ UNCHANGED <<chunkVars, ingestVars, configVars, body, table, uuids, user_message,
                   conversation_id, user_groups, context_docs, sources, query_embedding,
                   assistant_message, timestamp, supplied_id, minted, retrieval_faults,
                   generation_raised, prompt, save_calls, puts>>

\* the clock advances between two steps of the handlers
Tick ==
    /\ now < MaxClock
    /\ now' = now + 1
    /\ UNCHANGED <<chunkVars, indexVars, historyVars, invocations, pc, unread, bucket,
                   key, pdf, next_chunk, embedding, indexed_count, result, chatVars>>

\* no ingestion is running and no chat request has started
ChatStart ==
    /\ ChunkIdle
    /\ now = 2
    /\ invocations = 0
    /\ pc = [i \in Invs |-> "idle"]
    /\ unread = [i \in Invs |-> << >>]
    /\ bucket = [i \in Invs |-> Absent]
    /\ key = [i \in Invs |-> Absent]
    /\ pdf = [i \in Invs |-> Absent]
    /\ next_chunk = [i \in Invs |-> 0]
    /\ embedding = [i \in Invs |-> 0]
    /\ indexed_count = [i \in Invs |-> 0]
    /\ result = [i \in Invs |-> NoResult]
    /\ faults = [i \in Invs |-> {}]
    /\ refreshes = [i \in Invs |-> 0]
    /\ wrote = [i \in Invs |-> {}]
    /\ wroteAfterRefresh = [i \in Invs |-> FALSE]
    /\ lastOk = NoSnapshot
    /\ prevOk = NoSnapshot
    /\ disturbed = FALSE
    /\ table = << >>
    /\ uuids = 0
    /\ chat_pc = [r \in Reqs |-> "idle"]
    /\ body = [r \in Reqs |-> NoBody]
    /\ user_message = [r \in Reqs |-> ""]
    /\ conversation_id = [r \in Reqs |-> Absent]
    /\ user_groups = [r \in Reqs |-> << >>]
    /\ context_docs = [r \in Reqs |-> << >>]
    /\ sources = [r \in Reqs |-> << >>]
    /\ query_embedding = [r \in Reqs |-> 0]
    /\ assistant_message = [r \in Reqs |-> Absent]
    /\ timestamp = [r \in Reqs |-> Absent]
    /\ response = [r \in Reqs |-> NoResult]
    /\ supplied_id = [r \in Reqs |-> Absent]
    /\ minted = [r \in Reqs |-> << >>]
    /\ phases = [r \in Reqs |-> << >>]
    /\ retrieval_faults = [r \in Reqs |-> {}]
    /\ generation_raised = [r \in Reqs |-> FALSE]
    /\ prompt = [r \in Reqs |-> NoPrompt]
    /\ save_calls = [r \in Reqs |-> 0]
    /\ puts = [r \in Reqs |-> << >>]

\* one chat request, under every configuration and against every index
ChatInit ==
    /\ ChatStart
    /\ \E idx \in ChatIndexes :
          /\ indexExists = idx.exists
          /\ indexDimension = idx.dimension
          /\ docs = idx.docs
          /\ searchable = idx.docs
    /\ OPENSEARCH_AVAILABLE \in BOOLEAN
    /\ OPENSEARCH_ENDPOINT \in {Absent, "https://search.example"}
    /\ TABLE_NAME \in {Absent, "conversations"}

ChatNext ==
    \E r \in {1} :
        \/ ChatBegin(r, Bodies, GroupClaims)
        \/ EnterRetrieval(r)
        \/ QueryEmbedding(r)
        \/ GetClient(r)
        \/ Search(r)
        \/ Generate(r)
        \/ Save(r)
        \/ PutAssistant(r)
        \/ ChatRespond(r)

\* one request from its event to its response; the handler runs on until it
\* returns, every call it makes returning or raising
SpecChat == ChatInit /\ [][ChatNext]_vars /\ WF_vars(ChatNext)

\* two turns of conversation "c1" with a table and without the search layer
TurnsInit ==
    /\ ChatStart
    /\ indexExists = FALSE
    /\ indexDimension = 0
    /\ docs = << >>
    /\ searchable = << >>
    /\ OPENSEARCH_AVAILABLE = FALSE
    /\ OPENSEARCH_ENDPOINT = Absent
    /\ TABLE_NAME = "conversations"

TurnsNext ==
    \/ Tick
    \/ \E r \in Reqs :
        \/ ChatBegin(r, TurnBodies, {Absent})
        \/ EnterRetrieval(r)
        \/ Generate(r)
        \/ Save(r)
        \/ PutAssistant(r)
        \/ ChatRespond(r)

\* two requests on one conversation, running concurrently in two execution
\* environments
SpecTurns == TurnsInit /\ [][TurnsNext]_vars

(***************************************************************************)
(* Claims about the chat handler, checked under SpecChat and SpecTurns.    *)
(***************************************************************************)
\* the request was accepted: its body parsed and carried a non-empty message
Accepted(r) == user_message[r] # ""

\* the retrieval block of the request is over
RetrievalOver(r) ==
    chat_pc[r] \in {"generate", "save", "put_assistant", "respond", "done"}

\* the generation block of the request is over
GenerationOver(r) == chat_pc[r] \in {"save", "put_assistant", "respond", "done"}

\* C12: when the query embedding, the construction of the index client or
\* the search has failed in a request, retrieval ends with an empty context
\* and an empty source list, the model is still invoked for the request, and
\* the request ends with a 200 response that carries no sources.
C12_RetrievalDegrades ==
    \A r \in Reqs :
        retrieval_faults[r] # {} =>
            /\ RetrievalOver(r) => (context_docs[r] = << >> /\ sources[r] = << >>)
            /\ chat_pc[r] \in {"respond", "done"} =>
                  (prompt[r] # NoPrompt /\ assistant_message[r] # Absent)
            /\ chat_pc[r] = "done" =>
                  /\ response[r].statusCode = 200
                  /\ response[r].body.sources = << >>
                  /\ response[r].body.rag_enabled = FALSE

\* the query embedding failed against an index that holds documents, and the
\* request was answered with 200
C12_Witness ==
    \E r \in Reqs :
        /\ "embedding" \in retrieval_faults[r]
        /\ searchable # << >>
        /\ chat_pc[r] = "done" /\ response[r].statusCode = 200
        /\ ~generation_raised[r]

\* the set of the caller's groups
GroupSet(r) == {user_groups[r][i] : i \in 1..Len(user_groups[r])}

\* how the fallback greets a caller of group set g
Greeting(g) ==
    IF "instructors" \in g THEN "Hello Instructor! "
    ELSE IF "staff" \in g THEN "Hello Staff Member! "
    ELSE IF "admins" \in g THEN "Hello Admin! "
    ELSE "Hello! "

\* C13: when the generation call raises, the assistant message is the
\* fallback text: a non-empty text fixed by the caller's group set alone, the
\* greeting for instructors before staff before admins, else the generic
\* one, followed by the same notice; the request is answered with it and
\* statusCode 200.
C13_Fallback ==
    \A r \in Reqs :
        generation_raised[r] =>
            /\ assistant_message[r] = Greeting(GroupSet(r)) \o FallbackNotice
            /\ Len(assistant_message[r]) > 0
            /\ chat_pc[r] = "done" =>
                  /\ response[r].statusCode = 200
                  /\ response[r].body.message = assistant_message[r]

\* generation raised for a caller in staff and instructors, who was answered
\* as an instructor
C13_Witness ==
    \E r \in Reqs :
        /\ generation_raised[r]
        /\ user_groups[r] = <<"staff", "instructors">>
        /\ chat_pc[r] = "done"
        /\ response[r].body.message = "Hello Instructor! " \o FallbackNotice

\* the texts the generation block can leave in assistant_message
Answers(r) ==
    {ExtractText(c) : c \in ModelContents}
    \cup {GenerateFallbackResponse(user_message[r], user_groups[r])}

\* C14: a request whose body parsed and carried a non-empty message is never
\* answered with an error: whatever failed in retrieval, generation and
\* persistence, it ends with statusCode 200 and the message the generation
\* block produced; whether the writes of save_to_dynamodb succeeded shows in
\* neither.
C14_AlwaysAnswers ==
    \A r \in Reqs :
        /\ (Accepted(r) /\ chat_pc[r] = "done") =>
              /\ response[r].statusCode = 200
              /\ response[r].body.message = assistant_message[r]
              /\ assistant_message[r] \in Answers(r)
        /\ (Accepted(r) /\ chat_pc[r] # "done") => response[r] = NoResult

\* retrieval, generation and the first write to the table all failed, and the
\* request was answered with 200
C14_Witness ==
    \E r \in Reqs :
        /\ chat_pc[r] = "done" /\ response[r].statusCode = 200
        /\ retrieval_faults[r] # {}
        /\ generation_raised[r]
        /\ TABLE_NAME # Absent /\ save_calls[r] = 1 /\ puts[r] = << >>

PhaseOrder == <<"Received", "Retrieving", "Generating", "Persisted", "Responded">>

IsPrefix(s, t) == Len(s) <= Len(t) /\ \A i \in 1..Len(s) : s[i] = t[i]

\* the order of the handler's blocks for request r, as far as it has come
Ordered(r) ==
    /\ IsPrefix(phases[r], PhaseOrder)
    /\ prompt[r] # NoPrompt =>
          /\ GenerationOver(r)
          /\ prompt[r] = RequestBody(user_message[r], context_docs[r], user_groups[r])
    /\ save_calls[r] <= 1
    /\ save_calls[r] = 1 =>
          (assistant_message[r] # Absent /\ chat_pc[r] \in {"put_assistant", "respond", "done"})
    /\ \A i \in 1..Len(puts[r]) :
          puts[r][i].role = "assistant" => puts[r][i].message = assistant_message[r]
    /\ (Accepted(r) /\ response[r] # NoResult) =>
          (chat_pc[r] = "done" /\ phases[r] = PhaseOrder /\ save_calls[r] = 1)

\* the assistant message, once set, stays as it is
MessageFixed ==
    \A r \in Reqs :
        assistant_message[r] # Absent => assistant_message'[r] = assistant_message[r]

\* C15: an accepted request enters the handler's blocks in the order
\* Received, Retrieving, Generating, Persisted, Responded: the model is
\* invoked only once retrieval is over, with the context retrieval left;
\* save_to_dynamodb is called at most once, after the assistant message is set,
\* and the message never changes afterwards; the response is built after the
\* save call is over; and every accepted request ends with its response.
C15_PhaseOrder ==
    /\ [](\A r \in Reqs : Ordered(r))
    /\ [][MessageFixed]_vars
    /\ \A r \in Reqs :
          Accepted(r) ~> (chat_pc[r] = "done" /\ response[r].statusCode = 200)

\* a request went through all five blocks with two documents retrieved and
\* both records written
C15_Witness ==
    \E r \in Reqs :
        /\ phases[r] = PhaseOrder
        /\ Len(context_docs[r]) = 2
        /\ Len(puts[r]) = 2

\* C16 (as stated): a request whose generation failed is answered without
\* the save block being entered, and writes no record.
C16_FallbackNotPersisted ==
    \A r \in Reqs :
        generation_raised[r] => (save_calls[r] = 0 /\ puts[r] = << >>)

\* C16 (amended): a request whose generation failed goes on to the save block
\* like any other before it is answered: save_to_dynamodb is called once with
\* the fallback text as the assistant message, and the assistant record it
\* writes carries that text.
C16_FallbackPersisted ==
    \A r \in Reqs :
        (generation_raised[r] /\ chat_pc[r] \in {"respond", "done"}) =>
            /\ save_calls[r] = 1
            /\ \E i \in 1..Len(phases[r]) : phases[r][i] = "Persisted"
            /\ TABLE_NAME = Absent => puts[r] = << >>
            /\ \A i \in 1..Len(puts[r]) :
                  puts[r][i].role = "assistant" =>
                      puts[r][i].message = Greeting(GroupSet(r)) \o FallbackNotice

\* a turn answered by the fallback, with both of its records written
C16_Witness ==
    \E r \in Reqs :
        /\ generation_raised[r]
        /\ chat_pc[r] = "done"
        /\ Len(puts[r]) = 2
        /\ puts[r][2].message = assistant_message[r]

\* C17: records are only ever added to the table: every record a request has
\* put is still there, as that request wrote it, whatever other requests
\* have done since.
C17_AppendOnly ==
    \A r \in Reqs :
        \A i \in 1..Len(puts[r]) :
            /\ ItemKey(puts[r][i]) \in DOMAIN table
            /\ table[ItemKey(puts[r][i])] = puts[r][i]

\* C18: in a request answered with 200 the conversation id of the response is
\* the id of the body when the body carried a non-empty one, and generation of
\* ids is not used; otherwise it is the one id generated for the request, an
\* id no request supplied and no other request was given.  Every record the
\* request wrote carries the response's id, in its partition key too.
C18_ConversationId ==
    \A r \in Reqs :
        (chat_pc[r] = "done" /\ response[r].statusCode = 200) =>
            LET id == response[r].body.conversation_id
            IN  /\ supplied_id[r] \notin {Absent, ""} =>
                      (id = supplied_id[r] /\ minted[r] = << >>)
                /\ supplied_id[r] \in {Absent, ""} =>
                      /\ Len(minted[r]) = 1
                      /\ id = minted[r][1]
                      /\ \A q \in Reqs :
                            /\ supplied_id[q] # id
                            /\ q # r => (\A i \in 1..Len(minted[q]) : minted[q][i] # id)
                /\ \A i \in 1..Len(puts[r]) :
                      /\ puts[r][i].conversationId = id
                      /\ puts[r][i].PK = "CONV#" \o id

\* a request without a conversation_id was answered with a generated id and
\* wrote both records
C18_Witness ==
    \E r \in Reqs :
        /\ chat_pc[r] = "done" /\ response[r].statusCode = 200
        /\ supplied_id[r] = Absent
        /\ Len(minted[r]) = 1
        /\ Len(puts[r]) = 2

\* entry e of sources describes the document of the index whose text is t
Describes(e, t) ==
    \E id \in DOMAIN searchable :
        /\ searchable[id].source_key = e.source
        /\ searchable[id].chunk_id = e.chunk_id
        /\ searchable[id].text = t

\* C19: in every 200 response rag_enabled is true exactly when the search
\* gave the request at least one document, and sources lists those documents
\* one entry each in the order of the context; an accepted request without a
\* conversation_id against an index that holds nothing is answered with 200,
\* a generated conversation_id, no sources and rag_enabled false.
C19_RagFlagAndSources ==
    \A r \in Reqs :
        (Accepted(r) /\ chat_pc[r] = "done") =>
            /\ response[r].statusCode = 200
            /\ response[r].body.rag_enabled = (context_docs[r] # << >>)
            /\ Len(response[r].body.sources) = Len(context_docs[r])
            /\ \A i \in 1..Len(context_docs[r]) :
                  Describes(response[r].body.sources[i], context_docs[r][i])
            /\ (supplied_id[r] = Absent /\ searchable = << >>) =>
                  /\ Len(minted[r]) = 1
                  /\ response[r].body.conversation_id = minted[r][1]
                  /\ response[r].body.sources = << >>
                  /\ response[r].body.rag_enabled = FALSE

\* a 200 response that cites the two chunks of the document, the second
\* chunk ranked first
C19_Witness ==
    \E r \in Reqs :
        /\ chat_pc[r] = "done" /\ response[r].statusCode = 200
        /\ response[r].body.rag_enabled
        /\ Len(response[r].body.sources) = 2
        /\ response[r].body.sources[1].chunk_id = 1

\* the positions at which p occurs in s
Occurrences(s, p) ==
    {i \in 1..(Len(s) - Len(p) + 1) : SubSeq(s, i, i + Len(p) - 1) = p}

\* the instruction to cite, as the system prompt words it
CitationGuidance == "Cite which document(s) you're referencing"

\* where "Document n:" stands in the user turn c, when it stands there once
HeaderAt(c, n) ==
    LET at == Occurrences(c, "Document " \o ToString(n) \o ":\n")
    IN  IF Cardinality(at) = 1 THEN CHOOSE i \in at : TRUE ELSE 0

\* the text that follows the header of document n in the user turn c
BodyAt(c, n, len) ==
    LET from == HeaderAt(c, n) + Len("Document " \o ToString(n) \o ":\n")
    IN  SubSeq(c, from, from + len - 1)

\* C20: the request sent to the model has the citation guidance in its
\* system prompt exactly when the context is non-empty.  With a context of n
\* documents the user turn holds the headers "Document 1:" to "Document n:"
\* once each and in this order, each followed by the text of the document at
\* that place of the context, no "Document 0:" and no "Document n+1:", and the
\* user's question; with an empty context the user turn is the user's message.
C20_PromptFollowsContext ==
    \A r \in Reqs :
        prompt[r] # NoPrompt =>
            LET system  == prompt[r].system
                content == prompt[r].messages[1].content
                n       == Len(context_docs[r])
            IN  /\ Len(prompt[r].messages) = 1
                /\ (Occurrences(system, CitationGuidance) # {}) = (n > 0)
                /\ n = 0 => content = user_message[r]
                /\ n > 0 =>
                      /\ \A i \in 1..n :
                            /\ HeaderAt(content, i) > 0
                            /\ BodyAt(content, i, Len(context_docs[r][i]))
                                  = context_docs[r][i]
                            /\ i < n => HeaderAt(content, i) < HeaderAt(content, i + 1)
                      /\ HeaderAt(content, 0) = 0
                      /\ HeaderAt(content, n + 1) = 0
                      /\ Occurrences(content, "User Question: " \o user_message[r]) # {}

\* the model was invoked with two retrieved documents, the second chunk first
C20_Witness ==
    \E r \in Reqs :
        /\ prompt[r] # NoPrompt
        /\ Len(context_docs[r]) = 2
        /\ sources[r][1].chunk_id = 1
        /\ Len(prompt[r].messages[1].content) > Len(user_message[r])

(***************************************************************************)
(* Two concurrent invocations for one object.  Nothing in the code         *)
(* serialises them (no lock, lease or conditional write), so the external  *)
(* calls of the two interleave freely.  Each slot is invoked once.         *)
(***************************************************************************)
PAIR_KEY == "a.pdf"

\* the notifications and manual invocations that name the object
PairEvents ==
    {[kind |-> "s3", Records |-> <<[bucket |-> PDFS_BUCKET, key |-> PAIR_KEY]>>],
     [kind |-> "manual", bucket |-> PDFS_BUCKET, key |-> PAIR_KEY]}

PairBegin(inv) ==
    /\ pc[inv] = "idle"
    /\ BeginWith(inv, PairEvents)

PairNext ==
    \E inv \in Invs :
        \/ PairBegin(inv)
        \/ Download(inv)
        \/ CheckIndex(inv)
        \/ CreateIndex(inv)
        \/ Embed(inv)
        \/ IndexChunk(inv)
        \/ Refresh(inv)
        \/ Respond(inv)

SpecIngestPair == IngestInit /\ [][PairNext]_vars

(***************************************************************************)
(* Claims about concurrent ingestion, checked under SpecIngestPair.        *)
(***************************************************************************)

\* both invocations are over
PairOver == \A inv \in Invs : pc[inv] = "done"

\* both invocations read the same text of the object
PairSameText == pdf[1] = pdf[2] /\ pdf[1] \in Pdfs

\* the entries of the index whose chunk ordinal is n
EntriesOf(n) == {id \in DOMAIN docs : docs[id].chunk_id = n}

\* C21: for any interleaving of the embed and upsert steps of two concurrent
\* ingestions of the same (bucket, key) with identical text, the final index
\* holds exactly one entry per chunk ordinal, with that chunk's text and
\* span, as after a single sequential ingestion.
C21_ConcurrentSameEntries ==
    (PairOver /\ PairSameText /\ \E inv \in Invs : Succeeded(inv)) =>
        LET expected == HandlerChunks[pdf[1]]
        IN  /\ \A i \in 1..Len(expected) :
                  Cardinality(EntriesOf(expected[i].chunk_id)) = 1
            /\ \A id \in DOMAIN docs :
                  \E i \in 1..Len(expected) :
                      /\ docs[id].chunk_id = expected[i].chunk_id
                      /\ docs[id].text = expected[i].text
                      /\ docs[id].start_pos = expected[i].start_pos
                      /\ docs[id].end_pos = expected[i].end_pos
                      /\ docs[id].source_bucket = PDFS_BUCKET
                      /\ docs[id].source_key = PAIR_KEY
            /\ Cardinality(DOMAIN docs) = Len(expected)

\* both invocations ingested the two-chunk document, each wrote both entries,
\* and the entry of the last chunk is the one slot 1 wrote
C21_Witness ==
    /\ \A inv \in Invs : Succeeded(inv) /\ Cardinality(wrote[inv]) = 2
    /\ pdf[1] = "guide" /\ pdf[2] = "guide"
    /\ embedding[1] # embedding[2]
    /\ \E id \in EntriesOf(1) : docs[id].embedding = embedding[1]

\* the request's body parsed to an object whose message is missing or empty
NoMessage(b) == b.kind = "object" /\ b.message \in {Absent, ""}

BoundaryPositions(t, s, cs) ==
    {p \in 0..(Len(t) - 1) :
        s <= p /\ p < s + cs /\ CharAt(t, p + 1) \in {".", "\n"}}

\* b: the offset inside the window of its last '.' or newline, -1 without one
LastBoundaryOffset(t, s, cs) ==
    LET ps == BoundaryPositions(t, s, cs)
    IN  IF ps = {} THEN -1 ELSE (CHOOSE p \in ps : \A q \in ps : q <= p) - s

\* C23: for every window whose raw right edge start + chunk_size is before
\* the end of the text, the window's end is start + b + 1 when b, the offset
\* inside the window of the last '.' or newline, is greater than
\* chunk_size // 2, and the raw edge start + chunk_size otherwise; a window
\* whose raw edge reaches or passes the end of the text is never snapped.
C23_SnapRule ==
    \A i \in 1..Len(chunks) :
        LET s == chunks[i].start_pos
            b == LastBoundaryOffset(text, s, chunk_size)
        IN  chunks[i].end_pos =
                IF s + chunk_size < Len(text) /\ b > chunk_size \div 2
                THEN s + b + 1
                ELSE s + chunk_size

\* the parameters C24 speaks of
SafeOverlap == 0 <= overlap /\ overlap < chunk_size /\ overlap <= chunk_size \div 2 + 1

\* C24: whenever 0 <= overlap < chunk_size and overlap <= chunk_size // 2 + 1,
\* every iteration of chunk_text strictly increases start, so chunking
\* terminates for every text (start counts the iterations from above and the
\* loop ends before start reaches len(text) + chunk_size); with the deployed
\* CHUNK_SIZE = 1000 and CHUNK_OVERLAP = 200 each iteration advances start
\* by at least 302.
C24_StartAdvances ==
    /\ [][(SafeOverlap /\ chunk_id' # chunk_id) =>
             /\ start' > start
             /\ (chunk_size = CHUNK_SIZE /\ overlap = CHUNK_OVERLAP)
                    => start' - start >= 302]_vars
    /\ [](SafeOverlap =>
             /\ chunk_id <= start
             /\ start < Len(text) + chunk_size
             /\ (cpc = "loop" /\ start < Len(text)) => chunk_id < MaxIter)

\* chunk_text returned for a text of the deployed parameters whose first
\* window was snapped at offset 501: the second chunk starts at 302
C24_Witness ==
    /\ cpc = "done"
    /\ chunk_size = CHUNK_SIZE /\ overlap = CHUNK_OVERLAP
    /\ Len(chunks) >= 3
    /\ chunks[1].end_pos = 502
    /\ chunks[2].start_pos = 302

\* the characters of t at positions s..e-1, for a span inside t
Span(t, s, e) == SubSeq(t, s + 1, e)

\* C25: every chunk returned by chunk_text records a span inside the
\* document: 0 <= start_pos < end_pos <= len(text), with
\* end_pos - start_pos <= chunk_size and the chunk's text equal to the
\* stripped text[start_pos:end_pos].
C25_SpanInsideDocument ==
    (cpc = "done" /\ ValidParams(chunk_size, overlap)) =>
        \A i \in 1..Len(chunks) :
            /\ 0 <= chunks[i].start_pos
            /\ chunks[i].start_pos < chunks[i].end_pos
            /\ chunks[i].end_pos <= Len(text)
            /\ chunks[i].end_pos - chunks[i].start_pos <= chunk_size
            /\ chunks[i].text = Strip(Span(text, chunks[i].start_pos, chunks[i].end_pos))

(***************************************************************************)
(* Further claims about the ingestion handler, checked under SpecIngest.   *)
(***************************************************************************)

\* the entries a search sees for the object (b, k)
SearchableOf(b, k) ==
    {id \in DOMAIN searchable :
        searchable[id].source_bucket = b /\ searchable[id].source_key = k}

\* C26: after a successful re-ingestion of a (bucket, key) whose new text
\* yields fewer chunks than the previous ingestion, the index entries with
\* that source key are exactly the chunks of the new text: no entry of the
\* earlier version with a higher chunk ordinal remains searchable.
C26_NoStaleEntries ==
    \A inv \in Invs :
        Succeeded(inv) =>
            /\ SearchableOf(bucket[inv], key[inv]) = ChunkIds(inv)
            /\ \A id \in SearchableOf(bucket[inv], key[inv]) :
                  searchable[id].chunk_id < Len(Chunks(inv))

(***************************************************************************)
(* Index creation by concurrent invocations, checked under SpecIngestPair. *)
(***************************************************************************)

\* the invocation is at, or past, its own indices.create call
IssuesCreate(inv) ==
    \/ pc[inv] = "create"
    \/ result[inv] = ErrorResponse(500, "resource_already_exists_exception")

\* C27: for any interleaving of two concurrent ingestion invocations that
\* both start while the index does not exist, index creation is issued at
\* most once and neither invocation fails because the other created the
\* index between its existence check and its create call.
C27_CreateOnce ==
    /\ ~(\A inv \in Invs : IssuesCreate(inv))
    /\ \A inv \in Invs :
          result[inv] # ErrorResponse(500, "resource_already_exists_exception")

(***************************************************************************)
(* Further claims about the chat handler, checked under SpecChat and       *)
(* SpecTurns.                                                              *)
(***************************************************************************)

\* C28: every 200 chat response carries a non-empty message, also when the
\* generation call succeeds but its response has no content blocks or a
\* first content block without text.
C28_NonEmptyMessage ==
    \A r \in Reqs :
        (chat_pc[r] = "done" /\ response[r].statusCode = 200)
            => response[r].body.message # ""

\* the characters of sort keys in code-point order, the order in which
\* DynamoDB compares string sort keys
CodePoints == "#0123456789ABCDEFGHIJKLMNOPQRSTUVWXYZ"

CodePoint(c) == CHOOSE i \in 1..Len(CodePoints) : CharAt(CodePoints, i) = c

\* a sorts before b
SortsBefore(a, b) ==
    LET n == Min(Len(a), Len(b))
        differ == {i \in 1..n : CharAt(a, i) # CharAt(b, i)}
    IN  IF differ = {} THEN Len(a) < Len(b)
        ELSE LET i == CHOOSE i \in differ : \A j \in differ : i <= j
             IN  CodePoint(CharAt(a, i)) < CodePoint(CharAt(b, i))

\* both records of the request's turn were put
TurnSaved(r) == Len(puts[r]) = 2

\* the turn's user record sorts before its assistant record
UserFirst(r) == SortsBefore(puts[r][1].SK, puts[r][2].SK)

\* the two records of an earlier turn sort before those of a later turn
TurnsInOrder(r1, r2) ==
    \A i \in 1..2, j \in 1..2 : SortsBefore(puts[r1][i].SK, puts[r2][j].SK)

\* C29: within a conversation, listing the persisted records in ascending
\* sort-key order places each turn's user message before that turn's
\* assistant message, and places the two records of an earlier turn before
\* those of a later turn.
C29_SortKeyOrder ==
    /\ \A r \in Reqs : TurnSaved(r) => UserFirst(r)
    /\ \A r1 \in Reqs, r2 \in Reqs :
          (TurnSaved(r1) /\ TurnSaved(r2)
              /\ conversation_id[r1] = conversation_id[r2]
              /\ SortsBefore(timestamp[r1], timestamp[r2]))
          => TurnsInOrder(r1, r2)

(***************************************************************************)
(* The notification's Records, checked under SpecIngest.                   *)
(***************************************************************************)

\* C30: when the storage notification event given to the ingestion handler
\* carries several Records, the object of every record is ingested by that
\* invocation; no record is dropped without being processed or reported: an
\* invocation that returns success has left no record unread.
C30_EveryRecordIngested ==
    \A inv \in Invs : Succeeded(inv) => unread[inv] = << >>

====
